---- MODULE Spec2Model ----
(***************************************************************************)
(* A model of personfromvid's output naming engine                         *)
(* (personfromvid/output/naming_convention.py, class NamingConvention) and *)
(* of its configuration tree (personfromvid/data/config.py, class Config). *)
(*                                                                         *)
(* Strings that the code builds, splits or compares character by character *)
(* (filenames, labels) are sequences of one-character strings, so that     *)
(* joining, zero padding, lower-casing and pathlib's stem/suffix split are *)
(* computed as the code computes them.                                     *)
(***************************************************************************)
EXTENDS Integers, Sequences, FiniteSets, TLC

VARIABLES
    video_base_name,    \* NamingConvention.video_base_name
    used_filenames,     \* NamingConvention._used_filenames
    sequence_counters,  \* NamingConvention._sequence_counters (keys present)
    log,                \* observation: the issuing calls since the last reset,
                        \*   each with the arguments it read, its candidate,
                        \*   its result and the sequence number it was given
    last_op,            \* observation: "init", "issue" or "reset", the last
                        \*   operation performed on the engine
    suffixedBefore,     \* observation: the candidates that were answered with a
                        \*   suffixed name in the epoch the last reset ended
    cfg,                \* the Config instance the program holds (NoConfig
                        \*   before the first successful construction)
    files,              \* the configuration files on disk, by path
    environ,            \* os.environ
    outcome,            \* observation: the last configuration operation, its
                        \*   arguments and the error it raised ("ok": none)
    steps,              \* observation: configuration operations performed
    validated,          \* observation: the last validate_filename call, its
                        \*   argument and the value it returned
    serialized,         \* whether the callers hold one exclusive lock per
                        \*   engine around every filename-issuing call
    pc,                 \* each worker's position in _ensure_unique_filename
    local               \* each worker's local variables in that call

xvars == <<validated, serialized, pc, local>>

nvars == <<video_base_name, used_filenames, sequence_counters, log, last_op,
           suffixedBefore, xvars>>

cvars == <<cfg, files, environ, outcome, steps>>

vars == <<nvars, cvars>>

\* the workers that share one engine
Workers == {"w1", "w2"}

NoValidation == [none |-> TRUE]
NoCall == [none |-> TRUE]

\* no validate_filename call made, no worker inside a call
WorkersIdle ==
    /\ validated = NoValidation
    /\ serialized = TRUE
    /\ pc = [w \in Workers |-> "idle"]
    /\ local = [w \in Workers |-> NoCall]

-----------------------------------------------------------------------------
(* Bounds of the model.                                                    *)

\* issuing calls between two resets (engine specification)
MaxCalls == 4
\* configuration operations in one behaviour
MaxSteps == 3
\* issuing calls in one behaviour of the validation specification
MaxValidateCalls == 2
\* issuing calls in one behaviour of the workers specification
MaxWorkerCalls == 3

-----------------------------------------------------------------------------
(* Strings.                                                                *)

UpperCase == <<"A","B","C","D","E","F","G","H","I","J","K","L","M",
               "N","O","P","Q","R","S","T","U","V","W","X","Y","Z">>
LowerCase == <<"a","b","c","d","e","f","g","h","i","j","k","l","m",
               "n","o","p","q","r","s","t","u","v","w","x","y","z">>
DigitChar == <<"0","1","2","3","4","5","6","7","8","9">>

\* str.lower() on one (ASCII) character
LowerChar(ch) ==
    IF \E i \in 1..Len(UpperCase) : UpperCase[i] = ch
    THEN LowerCase[CHOOSE i \in 1..Len(UpperCase) : UpperCase[i] = ch]
    ELSE ch

\* s.replace(" ", "-").lower()
FilenameSafe(s) ==
    [i \in 1..Len(s) |-> LowerChar(IF s[i] = " " THEN "-" ELSE s[i])]

RECURSIVE Digits(_)
\* the decimal digits of n >= 0
Digits(n) ==
    IF n < 10 THEN <<DigitChar[n + 1]>>
    ELSE Digits(n \div 10) \o <<DigitChar[(n % 10) + 1]>>

RECURSIVE ZeroPad(_, _)
ZeroPad(s, width) ==
    IF Len(s) >= width THEN s ELSE ZeroPad(<<"0">> \o s, width)

\* f"{n:03d}": sign-aware zero padding to a minimum width of 3
Format03d(n) ==
    IF n < 0 THEN <<"-">> \o ZeroPad(Digits(-n), 2)
    ELSE ZeroPad(Digits(n), 3)

RECURSIVE Join(_, _)
\* sep.join(parts)
Join(sep, parts) ==
    IF Len(parts) = 0 THEN <<>>
    ELSE IF Len(parts) = 1 THEN parts[1]
    ELSE parts[1] \o sep \o Join(sep, Tail(parts))

\* [part for part in parts if part]
NonEmptyParts(parts) == SelectSeq(parts, LAMBDA p : Len(p) > 0)

\* str.rfind(ch), 1-based; 0 when ch does not occur
RFind(s, ch) ==
    IF \E i \in 1..Len(s) : s[i] = ch
    THEN CHOOSE i \in 1..Len(s) :
            s[i] = ch /\ \A j \in (i + 1)..Len(s) : s[j] # ch
    ELSE 0

\* pathlib: PurePath(s).name, the text after the last separator
PathName(s) == SubSeq(s, RFind(s, "/") + 1, Len(s))

\* pathlib: PurePath(s).suffix (a leading or a trailing dot starts no suffix)
PathSuffix(s) ==
    LET name == PathName(s)
        i == RFind(name, ".")
    IN  IF 1 < i /\ i < Len(name) THEN SubSeq(name, i, Len(name)) ELSE <<>>

\* pathlib: PurePath(s).stem
PathStem(s) ==
    LET name == PathName(s)
        i == RFind(name, ".")
    IN  IF 1 < i /\ i < Len(name) THEN SubSeq(name, 1, i - 1) ELSE name

-----------------------------------------------------------------------------
(* FrameData: head_poses is a sequence of [direction, confidence],         *)
(* closeup_detections a sequence of [shot_type].                           *)

\* FrameData.get_best_head_pose: the highest-confidence head pose, or none
get_best_head_pose(frame) ==
    IF Len(frame.head_poses) = 0 THEN <<>>
    ELSE LET best == CHOOSE i \in 1..Len(frame.head_poses) :
                        /\ \A j \in 1..Len(frame.head_poses) :
                              frame.head_poses[j].confidence
                                 <= frame.head_poses[i].confidence
                        /\ \A j \in 1..(i - 1) :
                              frame.head_poses[j].confidence
                                 < frame.head_poses[i].confidence
         IN  <<frame.head_poses[best]>>

get_head_direction(frame) ==
    IF Len(frame.head_poses) > 0
    THEN LET best_head_pose == get_best_head_pose(frame)
         IN  IF Len(best_head_pose) > 0 /\ Len(best_head_pose[1].direction) > 0
             THEN FilenameSafe(best_head_pose[1].direction)
             ELSE <<>>
    ELSE <<>>

RECURSIVE FirstShotType(_)
\* the for loop of _get_shot_type
FirstShotType(closeups) ==
    IF Len(closeups) = 0 THEN <<>>
    ELSE IF Len(closeups[1].shot_type) > 0
         THEN FilenameSafe(closeups[1].shot_type)
         ELSE FirstShotType(Tail(closeups))

get_shot_type(frame) ==
    IF Len(frame.closeup_detections) > 0
    THEN FirstShotType(frame.closeup_detections)
    ELSE <<>>

-----------------------------------------------------------------------------
(* Candidate filenames.                                                    *)

\* get_full_frame_filename's candidate without the "if part" filter
FullFrameBaseFilename_unfiltered(base, frame, category, rank, extension) ==
    LET base_parts == <<base, category, get_head_direction(frame),
                        get_shot_type(frame), Format03d(rank)>>
    IN  Join(<<"_">>, base_parts) \o <<".">> \o extension

FullFrameBaseFilename(base, frame, category, rank, extension) ==
    LET head_direction == get_head_direction(frame)
        shot_type == get_shot_type(frame)
        base_parts == <<base, category, head_direction, shot_type,
                        Format03d(rank)>>
    IN  Join(<<"_">>, NonEmptyParts(base_parts)) \o <<".">> \o extension

FaceCropBaseFilename(base, head_angle, rank, extension) ==
    LET base_parts == <<base, <<"f","a","c","e">>, head_angle, Format03d(rank)>>
    IN  Join(<<"_">>, base_parts) \o <<".">> \o extension

-----------------------------------------------------------------------------
(* Collision resolution.                                                   *)

\* defaultdict(int) lookup
CounterOf(counters, stem) ==
    IF stem \in DOMAIN counters THEN counters[stem] ELSE 0

SuffixedName(stem, sequence, extension) ==
    stem \o <<"_">> \o Format03d(sequence) \o extension

RECURSIVE FirstFreeSequence(_, _, _, _)
\* the while loop of _ensure_unique_filename
FirstFreeSequence(stem, extension, sequence, used) ==
    IF SuffixedName(stem, sequence, extension) \notin used
    THEN sequence
    ELSE FirstFreeSequence(stem, extension, sequence + 1, used)

\* _ensure_unique_filename trusting the counter: the suffixed name is not
\* looked up in the issued set
ensure_unique_filename_counter_only(base_filename, used, counters) ==
    IF base_filename \notin used
    THEN [name |-> base_filename, sequence |-> 0,
          used |-> used \cup {base_filename}, counters |-> counters]
    ELSE LET name_without_ext == PathStem(base_filename)
             extension == PathSuffix(base_filename)
             sequence == CounterOf(counters, name_without_ext) + 1
             new_filename == SuffixedName(name_without_ext, sequence, extension)
         IN  [name |-> new_filename, sequence |-> sequence,
              used |-> used \cup {new_filename},
              counters |-> (name_without_ext :> sequence) @@ counters]

\* _ensure_unique_filename restarting the search at 1 on every collision
ensure_unique_filename_from_one(base_filename, used, counters) ==
    IF base_filename \notin used
    THEN [name |-> base_filename, sequence |-> 0,
          used |-> used \cup {base_filename}, counters |-> counters]
    ELSE LET name_without_ext == PathStem(base_filename)
             extension == PathSuffix(base_filename)
             sequence == FirstFreeSequence(name_without_ext, extension, 1, used)
             new_filename == SuffixedName(name_without_ext, sequence, extension)
         IN  [name |-> new_filename, sequence |-> sequence,
              used |-> used \cup {new_filename},
              counters |-> (name_without_ext :> sequence) @@ counters]

\* _ensure_unique_filename that does not store the sequence number it used
ensure_unique_filename_counter_kept(base_filename, used, counters) ==
    IF base_filename \notin used
    THEN [name |-> base_filename, sequence |-> 0,
          used |-> used \cup {base_filename}, counters |-> counters]
    ELSE LET name_without_ext == PathStem(base_filename)
             extension == PathSuffix(base_filename)
             sequence == FirstFreeSequence(name_without_ext, extension,
                            CounterOf(counters, name_without_ext) + 1, used)
             new_filename == SuffixedName(name_without_ext, sequence, extension)
         IN  [name |-> new_filename, sequence |-> sequence,
              used |-> used \cup {new_filename}, counters |-> counters]

\* _ensure_unique_filename: the name returned, the sequence number it carries
\* (0: none) and the engine's state afterwards
ensure_unique_filename(base_filename, used, counters) ==
    IF base_filename \notin used
    THEN [name |-> base_filename, sequence |-> 0,
          used |-> used \cup {base_filename}, counters |-> counters]
    ELSE LET name_without_ext == PathStem(base_filename)
             extension == PathSuffix(base_filename)
             sequence == FirstFreeSequence(name_without_ext, extension,
                            CounterOf(counters, name_without_ext) + 1, used)
             new_filename == SuffixedName(name_without_ext, sequence, extension)
         IN  [name |-> new_filename, sequence |-> sequence,
              used |-> used \cup {new_filename},
              counters |-> (name_without_ext :> sequence) @@ counters]

\* one issuing call: resolve the candidate, update the engine, note the call
Issue(kind, args, base_filename) ==
    LET r == ensure_unique_filename(base_filename, used_filenames,
                                    sequence_counters)
    IN  /\ used_filenames' = r.used
        /\ sequence_counters' = r.counters
        /\ log' = Append(log, [kind |-> kind, args |-> args,
                               candidate |-> base_filename,
                               result |-> r.name, sequence |-> r.sequence])
        /\ last_op' = "issue"
        /\ UNCHANGED <<video_base_name, suffixedBefore, cvars, xvars>>

get_full_frame_filename(frame, category, rank, extension) ==
    Issue("full_frame",
          [frame |-> frame, category |-> category, rank |-> rank,
           extension |-> extension],
          FullFrameBaseFilename(video_base_name, frame, category, rank,
                                extension))

get_face_crop_filename(frame, head_angle, rank, extension) ==
    Issue("face_crop",
          [head_angle |-> head_angle, rank |-> rank, extension |-> extension],
          FaceCropBaseFilename(video_base_name, head_angle, rank, extension))

\* reset_counters clearing the counters only
reset_counters_keep_used ==
    /\ used_filenames' = used_filenames
    /\ sequence_counters' = <<>>
    /\ log' = <<>>
    /\ last_op' = "reset"
    /\ suffixedBefore' = {log[i].candidate :
                             i \in {j \in 1..Len(log) : log[j].sequence > 0}}
    /\ UNCHANGED <<video_base_name, cvars, xvars>>

reset_counters ==
    /\ used_filenames' = {}
    /\ sequence_counters' = <<>>
    /\ log' = <<>>
    /\ last_op' = "reset"
    /\ suffixedBefore' = {log[i].candidate :
                             i \in {j \in 1..Len(log) : log[j].sequence > 0}}
    /\ UNCHANGED <<video_base_name, cvars, xvars>>

-----------------------------------------------------------------------------
(* Filename validation.                                                    *)

\* invalid_chars = '<>:"/\\|?*'
InvalidChars == {"<", ">", ":", "\"", "/", "\\", "|", "?", "*"}

\* most filesystems support 255 chars
MaxFilenameLength == 255

\* str.startswith
StartsWith(s, prefix) ==
    /\ Len(prefix) <= Len(s)
    /\ SubSeq(s, 1, Len(prefix)) = prefix

\* the value validate_filename returns for an engine with the base name base
ValidFilename(base, filename) ==
    IF filename = <<>> THEN FALSE
    ELSE IF \E ch \in InvalidChars :
               \E i \in 1..Len(filename) : filename[i] = ch THEN FALSE
    ELSE IF Len(filename) > MaxFilenameLength THEN FALSE
    ELSE IF ~StartsWith(filename, base) THEN FALSE
    ELSE TRUE

\* validate_filename that also records the name it was asked about
validate_filename_recording(filename) ==
    /\ validated' = [filename |-> filename,
                     result |-> ValidFilename(video_base_name, filename),
                     calls_before |-> Len(log)]
    /\ used_filenames' = used_filenames \cup {filename}
    /\ UNCHANGED <<video_base_name, sequence_counters, log, last_op,
                   suffixedBefore, serialized, pc, local, cvars>>

validate_filename(filename) ==
    /\ validated' = [filename |-> filename,
                     result |-> ValidFilename(video_base_name, filename),
                     calls_before |-> Len(log)]
    /\ UNCHANGED <<video_base_name, used_filenames, sequence_counters, log,
                   last_op, suffixedBefore, serialized, pc, local, cvars>>

-----------------------------------------------------------------------------
(* _ensure_unique_filename statement by statement, as each of several      *)
(* workers sharing one engine runs it.  A worker's position is the         *)
(* statement it executes next; statements that touch only the worker's own *)
(* variables are taken together with the next access to the engine.        *)

\* the exclusive lock per engine instance that serialized callers take
\* around an issuing call: free when no worker is inside a call
LockFree == serialized => \A v \in Workers : pc[v] = "idle"

\* a worker enters _ensure_unique_filename with its candidate
BeginCall(w, kind, args, base_filename) ==
    /\ pc[w] = "idle"
    /\ LockFree
    /\ pc' = [pc EXCEPT ![w] = "check"]
    /\ local' = [local EXCEPT ![w] =
                    [kind |-> kind, args |-> args,
                     base_filename |-> base_filename,
                     name_without_ext |-> <<>>, extension |-> <<>>,
                     sequence |-> 0, attempts |-> 0,
                     issued |-> Cardinality(used_filenames)]]
    /\ UNCHANGED <<video_base_name, used_filenames, sequence_counters, log,
                   last_op, suffixedBefore, validated, serialized, cvars>>

BeginFullFrame(w, frame, category, rank, extension) ==
    BeginCall(w, "full_frame",
              [frame |-> frame, category |-> category, rank |-> rank,
               extension |-> extension],
              FullFrameBaseFilename(video_base_name, frame, category, rank,
                                    extension))

BeginFaceCrop(w, head_angle, rank, extension) ==
    BeginCall(w, "face_crop",
              [head_angle |-> head_angle, rank |-> rank,
               extension |-> extension],
              FaceCropBaseFilename(video_base_name, head_angle, rank,
                                   extension))

\* the call of worker w returns name
Return(w, name, sequence) ==
    /\ log' = Append(log, [kind |-> local[w].kind, args |-> local[w].args,
                           candidate |-> local[w].base_filename,
                           result |-> name, sequence |-> sequence,
                           worker |-> w, attempts |-> local[w].attempts,
                           issued |-> local[w].issued])
    /\ last_op' = "issue"
    /\ pc' = [pc EXCEPT ![w] = "idle"]
    /\ local' = [local EXCEPT ![w] = NoCall]

\* if base_filename not in self._used_filenames
CheckStep(w) ==
    /\ pc[w] = "check"
    /\ pc' = [pc EXCEPT ![w] =
                 IF local[w].base_filename \notin used_filenames
                 THEN "add" ELSE "split"]
    /\ local' = [local EXCEPT ![w].attempts = @ + 1]
    /\ UNCHANGED <<video_base_name, used_filenames, sequence_counters, log,
                   last_op, suffixedBefore, validated, serialized, cvars>>

\* the first branch returning the candidate without recording it
AddStep_unrecorded(w) ==
    /\ pc[w] = "add"
    /\ Return(w, local[w].base_filename, 0)
    /\ UNCHANGED <<video_base_name, used_filenames, sequence_counters,
                   suffixedBefore, validated, serialized, cvars>>

\* self._used_filenames.add(base_filename); return base_filename
AddStep(w) ==
    /\ pc[w] = "add"
    /\ used_filenames' = used_filenames \cup {local[w].base_filename}
    /\ Return(w, local[w].base_filename, 0)
    /\ UNCHANGED <<video_base_name, sequence_counters, suffixedBefore,
                   validated, serialized, cvars>>

\* path.stem, path.suffix, sequence = self._sequence_counters[...] + 1
SplitStep(w) ==
    /\ pc[w] = "split"
    /\ LET name_without_ext == PathStem(local[w].base_filename)
       IN  local' = [local EXCEPT
                        ![w].name_without_ext = name_without_ext,
                        ![w].extension = PathSuffix(local[w].base_filename),
                        ![w].sequence =
                            CounterOf(sequence_counters, name_without_ext) + 1]
    /\ pc' = [pc EXCEPT ![w] = "loop"]
    /\ UNCHANGED <<video_base_name, used_filenames, sequence_counters, log,
                   last_op, suffixedBefore, validated, serialized, cvars>>

\* the name the worker tries next
NewFilename(w) ==
    SuffixedName(local[w].name_without_ext, local[w].sequence,
                 local[w].extension)

\* one pass of the loop that leaves sequence as it is when the name is taken
LoopStep_no_increment(w) ==
    /\ pc[w] = "loop"
    /\ IF NewFilename(w) \notin used_filenames
       THEN /\ pc' = [pc EXCEPT ![w] = "record"]
            /\ local' = [local EXCEPT ![w].attempts = @ + 1]
       ELSE /\ pc' = pc
            /\ local' = [local EXCEPT ![w].attempts = @ + 1]
    /\ UNCHANGED <<video_base_name, used_filenames, sequence_counters, log,
                   last_op, suffixedBefore, validated, serialized, cvars>>

\* one pass of the while loop up to the membership test: either the name is
\* free, or sequence += 1 and the loop goes round
LoopStep(w) ==
    /\ pc[w] = "loop"
    /\ IF NewFilename(w) \notin used_filenames
       THEN /\ pc' = [pc EXCEPT ![w] = "record"]
            /\ local' = [local EXCEPT ![w].attempts = @ + 1]
       ELSE /\ pc' = pc
            /\ local' = [local EXCEPT ![w].attempts = @ + 1,
                                      ![w].sequence = @ + 1]
    /\ UNCHANGED <<video_base_name, used_filenames, sequence_counters, log,
                   last_op, suffixedBefore, validated, serialized, cvars>>

\* self._used_filenames.add(new_filename)
RecordStep(w) ==
    /\ pc[w] = "record"
    /\ used_filenames' = used_filenames \cup {NewFilename(w)}
    /\ pc' = [pc EXCEPT ![w] = "store"]
    /\ UNCHANGED <<video_base_name, sequence_counters, log, last_op,
                   suffixedBefore, validated, serialized, local, cvars>>

\* self._sequence_counters[name_without_ext] = sequence; return new_filename
StoreStep(w) ==
    /\ pc[w] = "store"
    /\ sequence_counters' =
          (local[w].name_without_ext :> local[w].sequence) @@ sequence_counters
    /\ Return(w, NewFilename(w), local[w].sequence)
    /\ UNCHANGED <<video_base_name, used_filenames, suffixedBefore, validated,
                   serialized, cvars>>

\* the next statement of a worker that is inside a call
WorkerStep(w) ==
    \/ CheckStep(w)
    \/ AddStep(w)
    \/ SplitStep(w)
    \/ LoopStep(w)
    \/ RecordStep(w)
    \/ StoreStep(w)

\* calls begun: those that returned and those in progress
CallsBegun ==
    Len(log) + Cardinality({w \in Workers : pc[w] # "idle"})

-----------------------------------------------------------------------------
(* Configuration values.  An enum member, a path, a plain string and None  *)
(* are told apart by a type tag, as isinstance tells them apart; integers  *)
(* stand for themselves and the weights of frame selection are counted in  *)
(* tenths (0.3 is 3, 1.0 is 10).                                           *)

EnumValue(cls, member) == [t |-> cls, v |-> member]
PathValue(p) == [t |-> "Path", v |-> p]
StrValue(s) == [t |-> "str", v |-> s]
NoneValue == [t |-> "None", v |-> "None"]

\* str(value)
PyStr(value) == StrValue(value.v)

DeviceTypeValues == {"cpu", "gpu", "auto"}
LogLevelValues == {"DEBUG", "INFO", "WARNING", "ERROR", "CRITICAL"}

DEFAULT_BATCH_SIZE == 1
BatchSizeMin == 1
BatchSizeMax == 64
WeightMin == 0
WeightMax == 10
DefaultFaceSizeWeight == 3
DefaultQualityWeight == 7
FallbackFaceSizeWeight == 3
WeightSumMax == 10

NoConfig == [none |-> TRUE]
Ok(value) == [ok |-> TRUE, value |-> value]
Bad(value) == [ok |-> FALSE, value |-> value]
Has(d, key) == key \in DOMAIN d

\* a field declared with an enum type: a member, or a string naming one
ValidateEnum(cls, members, raw) ==
    IF raw.t = cls THEN Ok(raw)
    ELSE IF raw.t = "str" /\ raw.v \in members THEN Ok(EnumValue(cls, raw.v))
    ELSE Bad(raw)

\* Field(ge=lo, le=hi)
ValidateBounded(raw, lo, hi) ==
    IF lo <= raw /\ raw <= hi THEN Ok(raw) ELSE Bad(raw)

\* StorageConfig.convert_path (mode="before")
convert_path(v) ==
    IF v.t = "None" THEN v
    ELSE IF v.t # "Path" THEN PathValue(v.v) ELSE v

\* a field declared Path (optional: Optional[Path]) behind convert_path
ValidatePath(raw, optional) ==
    LET v == convert_path(raw)
    IN  IF v.t = "Path" \/ (optional /\ v.t = "None") THEN Ok(v) ELSE Bad(v)

\* FrameSelectionConfig.validate_weights_sum; data is info.data
validate_weights_sum(field_name, v, data) ==
    IF field_name = "quality_weight"
    THEN LET face_size_weight ==
                 IF Has(data, "face_size_weight") THEN data.face_size_weight
                 ELSE FallbackFaceSizeWeight
         IN  IF v + face_size_weight > WeightSumMax THEN Bad(v) ELSE Ok(v)
    ELSE Ok(v)

\* ModelConfig(**d): a field that is not supplied takes its default, which
\* is not validated
ModelConfig(d) ==
    LET device == IF Has(d, "device")
                  THEN ValidateEnum("DeviceType", DeviceTypeValues, d.device)
                  ELSE Ok(EnumValue("DeviceType", "auto"))
        batch_size == IF Has(d, "batch_size")
                      THEN ValidateBounded(d.batch_size, BatchSizeMin,
                                           BatchSizeMax)
                      ELSE Ok(DEFAULT_BATCH_SIZE)
    IN  [ok |-> device.ok /\ batch_size.ok,
         value |-> [device |-> device.value, batch_size |-> batch_size.value]]

\* FrameSelectionConfig(**d): fields are validated in declaration order, the
\* validator of a field runs after its bounds held, and info.data holds the
\* fields that validated before it
FrameSelectionConfig(d) ==
    LET fw == IF Has(d, "face_size_weight")
              THEN LET b == ValidateBounded(d.face_size_weight, WeightMin,
                                            WeightMax)
                   IN  IF b.ok
                       THEN validate_weights_sum("face_size_weight", b.value,
                                                 <<>>)
                       ELSE b
              ELSE Ok(DefaultFaceSizeWeight)
        data == IF fw.ok THEN [face_size_weight |-> fw.value] ELSE <<>>
        qw == IF Has(d, "quality_weight")
              THEN LET b == ValidateBounded(d.quality_weight, WeightMin,
                                            WeightMax)
                   IN  IF b.ok
                       THEN validate_weights_sum("quality_weight", b.value,
                                                 data)
                       ELSE b
              ELSE Ok(DefaultQualityWeight)
    IN  [ok |-> fw.ok /\ qw.ok,
         value |-> [face_size_weight |-> fw.value, quality_weight |-> qw.value]]

\* StorageConfig(**d); "/cache" stands for user_cache_dir(...)
StorageConfig(d) ==
    LET cache == IF Has(d, "cache_directory")
                 THEN ValidatePath(d.cache_directory, FALSE)
                 ELSE Ok(PathValue("/cache"))
        temp == IF Has(d, "temp_directory")
                THEN ValidatePath(d.temp_directory, TRUE)
                ELSE Ok(NoneValue)
    IN  [ok |-> cache.ok /\ temp.ok,
         value |-> [cache_directory |-> cache.value,
                    temp_directory |-> temp.value]]

\* LoggingConfig(**d)
LoggingConfig(d) ==
    LET level == IF Has(d, "level")
                 THEN ValidateEnum("LogLevel", LogLevelValues, d.level)
                 ELSE Ok(EnumValue("LogLevel", "INFO"))
    IN  [ok |-> level.ok, value |-> [level |-> level.value]]

\* the validation of one group of Config from a dict
ValidateGroup(group, d) ==
    CASE group = "models" -> ModelConfig(d)
      [] group = "frame_selection" -> FrameSelectionConfig(d)
      [] group = "storage" -> StorageConfig(d)
      [] group = "logging" -> LoggingConfig(d)

GroupNames == {"models", "frame_selection", "storage", "logging"}

\* Config(**data): a group that is not supplied comes from its
\* default_factory
Config(data) ==
    LET r == [g \in GroupNames |->
                 ValidateGroup(g, IF Has(data, g) THEN data[g] ELSE <<>>)]
    IN  [ok |-> \A g \in GroupNames : r[g].ok,
         value |-> [g \in GroupNames |-> r[g].value]]

-----------------------------------------------------------------------------
(* Serialization.                                                          *)

\* ModelConfig.serialize_device
serialize_device(value) ==
    IF value.t = "DeviceType" THEN StrValue(value.v) ELSE PyStr(value)

\* LoggingConfig.serialize_level
serialize_level(value) ==
    IF value.t = "LogLevel" THEN StrValue(value.v) ELSE PyStr(value)

\* serialize_path that hands the Path object on
serialize_path_unconverted(value) == value

\* StorageConfig.serialize_path
serialize_path(value) ==
    IF value.t # "None" THEN PyStr(value) ELSE NoneValue

\* Config.dict(): model_dump with the field serializers applied
model_dump(c) ==
    [models |-> [device |-> serialize_device(c.models.device),
                 batch_size |-> c.models.batch_size],
     frame_selection |-> c.frame_selection,
     storage |-> [cache_directory |-> serialize_path(c.storage.cache_directory),
                  temp_directory |-> serialize_path(c.storage.temp_directory)],
     logging |-> [level |-> serialize_level(c.logging.level)]]

NumericFields == {"batch_size", "face_size_weight", "quality_weight"}

\* the values of a dumped tree that are not numbers
TaggedLeaves(data) ==
    {data[g][k] : <<g, k>> \in
        {gk \in GroupNames \X {"device", "batch_size", "face_size_weight",
                               "quality_weight", "cache_directory",
                               "temp_directory", "level"} :
            gk[2] \in DOMAIN data[gk[1]] /\ gk[2] \notin NumericFields}}

\* yaml.safe_dump: only plain scalars have a representer
yaml_safe_dump(data) ==
    IF \A leaf \in TaggedLeaves(data) : leaf.t \in {"str", "None"}
    THEN Ok(data) ELSE Bad(<<>>)

\* json.dump(default=str): a str subclass is written as its string, any other
\* object through str()
json_dump(data) ==
    Ok([g \in DOMAIN data |->
          [k \in DOMAIN data[g] |->
              IF k \in NumericFields THEN data[g][k]
              ELSE IF data[g][k].t \in {"str", "None"} THEN data[g][k]
              ELSE PyStr(data[g][k])]])

Lower(s) == [i \in 1..Len(s) |-> LowerChar(s[i])]

\* the format both to_file and from_file infer from config_path.suffix.lower()
SuffixFormat(path) ==
    LET suffix == Lower(PathSuffix(path))
    IN  IF suffix \in {<<".","y","a","m","l">>, <<".","y","m","l">>} THEN "yaml"
        ELSE IF suffix = <<".","j","s","o","n">> THEN "json"
        ELSE "unsupported"

AbsentFile == [state |-> "absent", data |-> <<>>, origin |-> NoConfig]
EmptyFile == [state |-> "empty", data |-> <<>>, origin |-> NoConfig]
\* origin (observation): the Config a file was written from
WrittenFile(data, origin) ==
    [state |-> "written", data |-> data, origin |-> origin]

Outcome(op, arg, error) == [op |-> op, arg |-> arg, error |-> error]

-----------------------------------------------------------------------------
(* Operations on the configuration.                                        *)

\* the program constructs Config(**data) and keeps it
NewConfig(data) ==
    LET r == Config(data)
    IN  /\ cfg' = IF r.ok THEN r.value ELSE cfg
        /\ outcome' = Outcome("Config", data,
                              IF r.ok THEN "ok" ELSE "ValidationError")
        /\ steps' = steps + 1
        /\ UNCHANGED <<files, environ, nvars>>

\* cfg.<group>.<field> = value: the group classes set no validate_assignment,
\* so the attribute is stored as given
SetField(group, field, value) ==
    /\ cfg # NoConfig
    /\ cfg' = [cfg EXCEPT ![group][field] = value]
    /\ outcome' = Outcome("setattr",
                          [group |-> group, field |-> field, value |-> value],
                          "ok")
    /\ steps' = steps + 1
    /\ UNCHANGED <<files, environ, nvars>>

\* cfg.<group> = data: Config validates assignments to its own fields
SetGroup(group, data) ==
    LET r == ValidateGroup(group, data)
    IN  /\ cfg # NoConfig
        /\ cfg' = IF r.ok THEN [cfg EXCEPT ![group] = r.value] ELSE cfg
        /\ outcome' = Outcome("setgroup", [group |-> group, data |-> data],
                              IF r.ok THEN "ok" ELSE "ValidationError")
        /\ steps' = steps + 1
        /\ UNCHANGED <<files, environ, nvars>>

\* Config.to_file: the file is opened for writing before the dump starts
to_file(config_path) ==
    LET data == model_dump(cfg)
        format == SuffixFormat(config_path)
        dumped == IF format = "yaml" THEN yaml_safe_dump(data)
                  ELSE IF format = "json" THEN json_dump(data)
                  ELSE Bad(<<>>)
        error == IF format = "unsupported" THEN "ValueError"
                 ELSE IF dumped.ok THEN "ok" ELSE "RepresenterError"
    IN  /\ cfg # NoConfig
        /\ files' = [files EXCEPT ![config_path] =
                        IF dumped.ok THEN WrittenFile(dumped.value, cfg)
                        ELSE EmptyFile]
        /\ outcome' = Outcome("to_file", config_path, error)
        /\ steps' = steps + 1
        /\ UNCHANGED <<cfg, environ, nvars>>

\* what Config.from_file returns or raises
FromFileResult(config_path) ==
    LET f == files[config_path]
        format == SuffixFormat(config_path)
    IN  IF f.state = "absent" THEN [error |-> "FileNotFoundError"]
        ELSE IF format = "unsupported" THEN [error |-> "ValueError"]
        ELSE IF f.state = "empty"
             THEN [error |-> IF format = "yaml" THEN "TypeError"
                             ELSE "JSONDecodeError"]
        ELSE LET r == Config(f.data)
             IN  IF r.ok THEN [error |-> "ok", value |-> r.value]
                 ELSE [error |-> "ValidationError"]

\* what Config.from_env returns: cls(), which reads no environment variable
FromEnvResult == [error |-> "ok", value |-> Config(<<>>).value]

\* a classmethod's result becomes the Config the program holds
Load(op, arg, r) ==
    /\ cfg' = IF r.error = "ok" THEN r.value ELSE cfg
    /\ outcome' = Outcome(op, arg, r.error)
    /\ steps' = steps + 1
    /\ UNCHANGED <<files, environ, nvars>>

from_file(config_path) == Load("from_file", config_path,
                               FromFileResult(config_path))

from_env == Load("from_env", <<>>, FromEnvResult)

NoPath == <<>>

\* load_config(config_path); get_default_config() is Config.from_env()
load_config(config_path) ==
    Load("load_config", config_path,
         IF config_path # NoPath /\ files[config_path].state # "absent"
         THEN FromFileResult(config_path)
         ELSE FromEnvResult)

-----------------------------------------------------------------------------
(* Inputs of the configuration specification.                              *)

P_yaml == <<"a",".","y","a","m","l">>
P_yml == <<"b",".","Y","M","L">>
P_json == <<"c",".","j","s","o","n">>
P_txt == <<"d",".","t","x","t">>
ConfigPaths == {P_yaml, P_yml, P_json, P_txt}

\* keyword arguments of Config(...)
ConstructorData ==
    <<  <<>>,
        [frame_selection |-> [face_size_weight |-> 9]],
        [frame_selection |-> [quality_weight |-> 8]],
        [frame_selection |-> [face_size_weight |-> 6, quality_weight |-> 4]],
        [frame_selection |-> [face_size_weight |-> 6, quality_weight |-> 5]],
        [frame_selection |-> [face_size_weight |-> 11]],
        [models |-> [batch_size |-> 0]],
        [models |-> [batch_size |-> 65]],
        [models |-> [batch_size |-> 1]],
        [models |-> [batch_size |-> 64, device |-> StrValue("gpu")]],
        [models |-> [device |-> StrValue("tpu")]],
        [storage |-> [cache_directory |-> StrValue("/d"),
                      temp_directory |-> StrValue("/t")],
         logging |-> [level |-> StrValue("DEBUG")]]  >>

\* attribute assignments on the groups
FieldAssignments ==
    <<  <<"models", "batch_size", 0>>,
        <<"models", "batch_size", 65>>,
        <<"models", "batch_size", 64>>,
        <<"models", "device", EnumValue("DeviceType", "cpu")>>,
        <<"frame_selection", "face_size_weight", 6>>,
        <<"frame_selection", "quality_weight", 5>>,
        <<"frame_selection", "quality_weight", 4>>,
        <<"storage", "cache_directory", StrValue("/d")>>,
        <<"storage", "temp_directory", PathValue("/t")>>,
        <<"logging", "level", EnumValue("LogLevel", "DEBUG")>>  >>

\* assignments of a whole group
GroupAssignments ==
    <<  <<"frame_selection", [face_size_weight |-> 6, quality_weight |-> 5]>>,
        <<"frame_selection", [face_size_weight |-> 5, quality_weight |-> 5]>>,
        <<"models", [batch_size |-> 0]>>  >>

\* a configuration file written by hand
UserFile ==
    WrittenFile([frame_selection |-> [face_size_weight |-> 9]], NoConfig)

EnvBatchSize == "PERSONFROMVID_MODELS__BATCH_SIZE"
EnvQualityWeight == "PERSONFROMVID_FRAME_SELECTION__QUALITY_WEIGHT"
Environments ==
    <<  <<>>,
        [PERSONFROMVID_MODELS__BATCH_SIZE |-> "4"],
        [PERSONFROMVID_MODELS__BATCH_SIZE |-> "65",
         PERSONFROMVID_FRAME_SELECTION__QUALITY_WEIGHT |-> "0.5"]  >>

NamingIdle ==
    /\ video_base_name = <<>>
    /\ used_filenames = {}
    /\ sequence_counters = <<>>
    /\ log = <<>>
    /\ last_op = "init"
    /\ suffixedBefore = {}
    /\ WorkersIdle

ConfigIdle ==
    /\ cfg = NoConfig
    /\ files = [p \in ConfigPaths |-> AbsentFile]
    /\ environ = <<>>
    /\ outcome = Outcome("init", <<>>, "ok")
    /\ steps = 0

InitConfig ==
    /\ NamingIdle
    /\ cfg = NoConfig
    /\ files = [p \in ConfigPaths |-> IF p = P_yaml THEN UserFile ELSE AbsentFile]
    /\ \E i \in 1..Len(Environments) : environ = Environments[i]
    /\ outcome = Outcome("init", <<>>, "ok")
    /\ steps = 0

NextConfig ==
    \/ \E i \in 1..Len(ConstructorData) :
          steps < MaxSteps /\ NewConfig(ConstructorData[i])
    \/ \E i \in 1..Len(FieldAssignments) :
          /\ steps < MaxSteps
          /\ SetField(FieldAssignments[i][1], FieldAssignments[i][2],
                      FieldAssignments[i][3])
    \/ \E i \in 1..Len(GroupAssignments) :
          /\ steps < MaxSteps
          /\ SetGroup(GroupAssignments[i][1], GroupAssignments[i][2])
    \/ \E p \in ConfigPaths : steps < MaxSteps /\ to_file(p)
    \/ \E p \in ConfigPaths : steps < MaxSteps /\ from_file(p)
    \/ steps < MaxSteps /\ from_env
    \/ \E p \in ConfigPaths \cup {NoPath} : steps < MaxSteps /\ load_config(p)

SpecConfig == InitConfig /\ [][NextConfig]_vars

-----------------------------------------------------------------------------
(* Inputs.                                                                 *)

S_c == <<"c">>
S_face == <<"f","a","c","e">>
S_a == <<"a">>
S_p == <<"p">>
S_j == <<"j">>
S_FrontLeft == <<"F"," ","L">>
S_fl == <<"f","-","l">>
S_fl001 == <<"f","-","l","_","0","0","1">>
S_CloseUp == <<"C"," ","U">>
S_Back == <<"B">>

Pose(direction, confidence) ==
    [direction |-> direction, confidence |-> confidence]
Closeup(shot_type) == [shot_type |-> shot_type]
Frame(head_poses, closeup_detections) ==
    [head_poses |-> head_poses, closeup_detections |-> closeup_detections]

BaseNames == {S_c, <<>>}
EngineBaseNames == {S_c}

\* the engine specification: few candidates, several calls
EngineFrames == {Frame(<<Pose(S_FrontLeft, 1)>>, <<>>)}
EngineCategories == {S_face}
EngineAngles == {S_fl, S_fl001}
EngineRanks == {1}
EngineExtensions == {S_p, S_j}

InitNaming ==
    /\ video_base_name \in EngineBaseNames
    /\ used_filenames = {}
    /\ sequence_counters = <<>>
    /\ log = <<>>
    /\ last_op = "init"
    /\ suffixedBefore = {}
    /\ WorkersIdle
    /\ ConfigIdle

NextNaming ==
    \/ \E frame \in EngineFrames, category \in EngineCategories,
          rank \in EngineRanks, extension \in EngineExtensions :
          /\ Len(log) < MaxCalls
          /\ get_full_frame_filename(frame, category, rank, extension)
    \/ \E frame \in EngineFrames, head_angle \in EngineAngles,
          rank \in EngineRanks, extension \in EngineExtensions :
          /\ Len(log) < MaxCalls
          /\ get_face_crop_filename(frame, head_angle, rank, extension)
    \/ reset_counters

SpecNaming == InitNaming /\ [][NextNaming]_vars

\* the candidate specification: many candidates, one call on a fresh or
\* reset engine
CandidateHeadPoses ==
    {<<>>,
     <<Pose(S_FrontLeft, 1)>>,
     <<Pose(<<>>, 2), Pose(S_FrontLeft, 1)>>,
     <<Pose(S_FrontLeft, 1), Pose(S_Back, 2)>>}
CandidateCloseups ==
    {<<>>,
     <<Closeup(<<>>)>>,
     <<Closeup(<<>>), Closeup(S_CloseUp)>>,
     <<Closeup(S_CloseUp), Closeup(S_Back)>>}
CandidateFrames ==
    {Frame(hp, cd) : hp \in CandidateHeadPoses, cd \in CandidateCloseups}
CandidateCategories == {<<>>, S_a, S_face}
CandidateRanks == {1, 12, 1000}
CandidateExtensions == {S_p, <<>>}

InitCandidate ==
    /\ video_base_name \in BaseNames
    /\ used_filenames = {}
    /\ sequence_counters = <<>>
    /\ log = <<>>
    /\ last_op = "init"
    /\ suffixedBefore = {}
    /\ WorkersIdle
    /\ ConfigIdle

NextCandidate ==
    \/ \E frame \in CandidateFrames, category \in CandidateCategories,
          rank \in CandidateRanks, extension \in CandidateExtensions :
          /\ log = <<>>
          /\ get_full_frame_filename(frame, category, rank, extension)
    \/ \E frame \in EngineFrames, head_angle \in EngineAngles,
          rank \in CandidateRanks, extension \in CandidateExtensions :
          /\ log = <<>>
          /\ get_face_crop_filename(frame, head_angle, rank, extension)
    \/ reset_counters

SpecCandidate == InitCandidate /\ [][NextCandidate]_vars

\* the validation specification: validate_filename between issuing calls
Repeat(ch, n) == [i \in 1..n |-> ch]
S_x == <<"x">>
ValidateAngles == {S_fl, S_fl001}
ValidateExtensions == {S_p}
ValidateInputs ==
    {<<>>, S_x, S_c \o <<"_">> \o S_a \o <<".">> \o S_p,
     FaceCropBaseFilename(S_c, S_fl, 1, S_p),
     FaceCropBaseFilename(<<>>, S_fl, 1, S_p),
     Repeat("c", MaxFilenameLength), Repeat("c", MaxFilenameLength + 1)}
       \cup {S_c \o <<ch>> \o S_a : ch \in InvalidChars}

InitValidate ==
    /\ video_base_name \in BaseNames
    /\ used_filenames = {}
    /\ sequence_counters = <<>>
    /\ log = <<>>
    /\ last_op = "init"
    /\ suffixedBefore = {}
    /\ WorkersIdle
    /\ ConfigIdle

NextValidate ==
    \/ \E frame \in EngineFrames, category \in EngineCategories,
          rank \in EngineRanks, extension \in ValidateExtensions :
          /\ Len(log) < MaxValidateCalls
          /\ get_full_frame_filename(frame, category, rank, extension)
    \/ \E frame \in EngineFrames, head_angle \in ValidateAngles,
          rank \in EngineRanks, extension \in ValidateExtensions :
          /\ Len(log) < MaxValidateCalls
          /\ get_face_crop_filename(frame, head_angle, rank, extension)
    \/ \E filename \in ValidateInputs \cup {log[i].result : i \in 1..Len(log)} :
          validate_filename(filename)

SpecValidate == InitValidate /\ [][NextValidate]_vars

\* the workers specification: two workers on one engine, with or without
\* the callers' lock
WorkerExtensions == {S_p}

InitWorkers ==
    /\ video_base_name \in EngineBaseNames
    /\ used_filenames = {}
    /\ sequence_counters = <<>>
    /\ log = <<>>
    /\ last_op = "init"
    /\ suffixedBefore = {}
    /\ validated = NoValidation
    /\ serialized \in BOOLEAN
    /\ pc = [w \in Workers |-> "idle"]
    /\ local = [w \in Workers |-> NoCall]
    /\ ConfigIdle

NextWorkers ==
    \/ \E w \in Workers, frame \in EngineFrames,
          category \in EngineCategories, rank \in EngineRanks,
          extension \in WorkerExtensions :
          /\ CallsBegun < MaxWorkerCalls
          /\ BeginFullFrame(w, frame, category, rank, extension)
    \/ \E w \in Workers, head_angle \in EngineAngles, rank \in EngineRanks,
          extension \in WorkerExtensions :
          /\ CallsBegun < MaxWorkerCalls
          /\ BeginFaceCrop(w, head_angle, rank, extension)
    \/ \E w \in Workers : CheckStep(w)
    \/ \E w \in Workers : AddStep(w)
    \/ \E w \in Workers : SplitStep(w)
    \/ \E w \in Workers : LoopStep(w)
    \/ \E w \in Workers : RecordStep(w)
    \/ \E w \in Workers : StoreStep(w)

SpecWorkers == InitWorkers /\ [][NextWorkers]_vars

\* a worker inside a call goes on executing it
SpecWorkersFair ==
    SpecWorkers /\ \A w \in Workers : WF_vars(WorkerStep(w))

-----------------------------------------------------------------------------
(* Claims about the naming engine.                                         *)

IssueStep == last_op' = "issue" /\ Len(log') = Len(log) + 1

\* C1: between two resets no two issuing calls, of either kind, return the
\* same filename.
C1_ReturnedNamesUnique ==
    \A i, j \in 1..Len(log) : i # j => log[i].result # log[j].result

\* a full-frame call and a face-crop call asked for the same candidate
C1_Witness ==
    \E i, j \in 1..Len(log) :
        /\ i < j
        /\ log[i].kind # log[j].kind
        /\ log[i].candidate = log[j].candidate
        /\ log[j].sequence > 0

\* the results of n requests in a row for the candidate c on a fresh engine
C2_Expected(c, i) ==
    IF i = 1 THEN c
    ELSE PathStem(c) \o <<"_">> \o Format03d(i - 1) \o PathSuffix(c)

C2_Repeated ==
    (\A i \in 1..Len(log) : log[i].candidate = log[1].candidate)
       => \A i \in 1..Len(log) :
             log[i].result = C2_Expected(log[1].candidate, i)

C2_Step ==
    IssueStep =>
       LET e == log'[Len(log')]
           c == e.candidate
           stem == PathStem(c)
           ext == PathSuffix(c)
           counter == CounterOf(sequence_counters, stem)
           name(s) == stem \o <<"_">> \o Format03d(s) \o ext
       IN  IF c \notin used_filenames
           THEN /\ e.result = c
                /\ used_filenames' = used_filenames \cup {c}
           ELSE \E s \in (counter + 1)..(counter + Cardinality(used_filenames) + 1) :
                   /\ name(s) \notin used_filenames
                   /\ \A t \in (counter + 1)..(s - 1) : name(t) \in used_filenames
                   /\ e.result = name(s)
                   /\ used_filenames' = used_filenames \cup {name(s)}
                   /\ CounterOf(sequence_counters', stem) = s

\* C2: a candidate never issued is returned unchanged and recorded; otherwise
\* the result is <stem>_<s:03d><ext> for the least s above the stem's counter
\* whose name is not issued, the name is recorded and the counter becomes s;
\* n requests in a row for one candidate on a fresh engine give the
\* candidate, then _001, _002, ... in that order.
C2_CollisionResolution == []C2_Repeated /\ [][C2_Step]_vars

\* the same candidate was requested three times in a row
C2_Witness ==
    /\ Len(log) = 3
    /\ \A i \in 1..3 : log[i].candidate = log[1].candidate
    /\ log[3].sequence = 2

\* C6: reset_counters leaves no issued filename and no sequence counter, so
\* the first request after it is answered with the candidate itself.
C6_ResetRestoresInitialState ==
    /\ last_op = "reset" =>
          used_filenames = {} /\ DOMAIN sequence_counters = {}
    /\ Len(log) = 1 =>
          /\ log[1].result = log[1].candidate
          /\ used_filenames = {log[1].candidate}
          /\ DOMAIN sequence_counters = {}

\* the first request after a reset is for a candidate that was answered with
\* a suffixed name before the reset
C6_Witness ==
    /\ Len(log) = 1
    /\ log[1].candidate \in suffixedBefore
    /\ log[1].result = log[1].candidate

C7_CounterStep ==
    last_op' # "reset" =>
       \A stem \in DOMAIN sequence_counters :
           CounterOf(sequence_counters', stem) >= sequence_counters[stem]

C7_Increasing ==
    \A i, j \in 1..Len(log) :
       (/\ i < j
        /\ log[i].sequence > 0
        /\ log[j].sequence > 0
        /\ PathStem(log[i].candidate) = PathStem(log[j].candidate))
          => log[i].sequence < log[j].sequence

\* C7: between resets no stem's counter decreases, and every sequence number
\* handed out for a stem exceeds all those handed out for it before.
C7_SequenceNumbersMonotone == []C7_Increasing /\ [][C7_CounterStep]_vars

\* a collision was answered with number 2 for a stem that had been handed no
\* number: <stem>_001 had been claimed as another call's first-choice name
C7_Witness ==
    \E j \in 1..Len(log) :
        /\ log[j].sequence = 2
        /\ \A i \in 1..(j - 1) :
              PathStem(log[i].candidate) = PathStem(log[j].candidate)
                 => log[i].sequence = 0
        /\ \E i \in 1..(j - 1) :
              log[i].sequence = 0
              /\ log[i].result = PathStem(log[j].candidate) \o <<"_","0","0","1">>
                                    \o PathSuffix(log[j].candidate)

\* the direction label of the best head pose, empty without one
C10_BestDirection(frame) ==
    IF Len(frame.head_poses) = 0 \/ Len(get_best_head_pose(frame)) = 0
    THEN <<>>
    ELSE get_best_head_pose(frame)[1].direction

\* the shot type of the first closeup detection that has one, else empty
C10_FirstShotType(frame) ==
    LET cd == frame.closeup_detections
        having == {i \in 1..Len(cd) : cd[i].shot_type # <<>>}
    IN  IF having = {} THEN <<>>
        ELSE cd[CHOOSE i \in having : \A k \in having : i <= k].shot_type

\* lower-cased, spaces replaced by hyphens
C10_Normalised(s) ==
    [i \in 1..Len(s) |-> IF s[i] = " " THEN "-" ELSE LowerChar(s[i])]

\* rank >= 0 zero-padded to 3 digits
C10_Pad3(rank) ==
    IF rank < 10 THEN <<"0", "0">> \o Digits(rank)
    ELSE IF rank < 100 THEN <<"0">> \o Digits(rank)
    ELSE Digits(rank)

RECURSIVE C10_JoinPresent(_)
\* the components that are not empty, in order, an underscore between them
C10_JoinPresent(parts) ==
    IF parts = <<>> THEN <<>>
    ELSE LET rest == C10_JoinPresent(Tail(parts))
         IN  IF Head(parts) = <<>> THEN rest
             ELSE IF rest = <<>> THEN Head(parts)
             ELSE Head(parts) \o <<"_">> \o rest

C10_FullFrameEntries == {i \in 1..Len(log) : log[i].kind = "full_frame"}

\* C10 as claimed: the head direction and shot type components are the
\* labels themselves.
C10_CandidateFromRawLabels ==
    \A i \in C10_FullFrameEntries :
       LET a == log[i].args
       IN  log[i].candidate =
              C10_JoinPresent(<<video_base_name, a.category,
                                C10_BestDirection(a.frame),
                                C10_FirstShotType(a.frame),
                                C10_Pad3(a.rank)>>)
                 \o <<".">> \o a.extension

\* C10, amended: the full-frame candidate is the underscore-join, in the
\* order base name, category, head direction, shot type, 3-digit rank, of
\* exactly the non-empty components, then "." and the extension, where head
\* direction and shot type are the labels lower-cased with spaces replaced
\* by hyphens.
C10_CandidateFromComponents ==
    \A i \in C10_FullFrameEntries :
       LET a == log[i].args
       IN  log[i].candidate =
              C10_JoinPresent(<<video_base_name, a.category,
                                C10_Normalised(C10_BestDirection(a.frame)),
                                C10_Normalised(C10_FirstShotType(a.frame)),
                                C10_Pad3(a.rank)>>)
                 \o <<".">> \o a.extension

\* a full-frame call with no category, a best head pose that is not the
\* first one, and a shot type found on the second closeup detection
C10_Witness ==
    \E i \in C10_FullFrameEntries :
        /\ log[i].args.category = <<>>
        /\ log[i].args.frame.head_poses = <<Pose(S_FrontLeft, 1), Pose(S_Back, 2)>>
        /\ log[i].args.frame.closeup_detections
              = <<Closeup(<<>>), Closeup(S_CloseUp)>>
        /\ log[i].args.rank = 12
        /\ log[i].candidate = <<"c","_","b","_","c","-","u","_","0","1","2",".","p">>

-----------------------------------------------------------------------------
(* Claims about the configuration.                                         *)

ConfigStep(op) == steps' = steps + 1 /\ outcome'.op = op

C3_OtherWeight(field) ==
    IF field = "quality_weight" THEN "face_size_weight" ELSE "quality_weight"

C3_Step ==
    (/\ ConfigStep("setattr")
     /\ outcome'.arg.group = "frame_selection"
     /\ outcome'.arg.field \in {"face_size_weight", "quality_weight"})
       => LET a == outcome'.arg
              sum == a.value + cfg.frame_selection[C3_OtherWeight(a.field)]
          IN  IF sum > WeightSumMax
              THEN outcome'.error = "ValidationError" /\ cfg' = cfg
              ELSE /\ outcome'.error = "ok"
                   /\ cfg'.frame_selection[a.field] = a.value

\* C3: an assignment to face_size_weight or quality_weight on an existing
\* Config is checked against the other weight's current value: it raises a
\* validation error and changes nothing when the sum would exceed 1.0 (0.5
\* after 0.6), and succeeds otherwise (0.4 after 0.6).
C3_WeightAssignmentRevalidated == [][C3_Step]_vars

\* C4: every Config the program holds, however constructed and whatever
\* was assigned to its fields since, has face_size_weight + quality_weight
\* <= 1.0.
C4_WeightSumInvariant ==
    cfg # NoConfig =>
       cfg.frame_selection.face_size_weight
          + cfg.frame_selection.quality_weight <= WeightSumMax

C5_Bounded ==
    {<<"models", "batch_size">>, <<"frame_selection", "face_size_weight">>,
     <<"frame_selection", "quality_weight">>}

C5_InRange(field, value) ==
    IF field = "batch_size" THEN BatchSizeMin <= value /\ value <= BatchSizeMax
    ELSE WeightMin <= value /\ value <= WeightMax

C5_Step ==
    /\ ConfigStep("Config") =>
          \A gf \in C5_Bounded :
             (/\ Has(outcome'.arg, gf[1])
              /\ Has(outcome'.arg[gf[1]], gf[2])
              /\ ~C5_InRange(gf[2], outcome'.arg[gf[1]][gf[2]]))
                => outcome'.error = "ValidationError" /\ cfg' = cfg
    /\ (/\ ConfigStep("setattr")
        /\ <<outcome'.arg.group, outcome'.arg.field>> \in C5_Bounded
        /\ ~C5_InRange(outcome'.arg.field, outcome'.arg.value))
          => outcome'.error = "ValidationError" /\ cfg' = cfg

\* C5: a bounded numeric field rejects a value outside its inclusive range
\* at construction and at every later assignment to the field of a group
\* held by a Config; the rejected assignment raises a validation error and
\* leaves the field as it was.
C5_BoundsCheckedOnEverySet == [][C5_Step]_vars

\* the number an environment variable's text denotes (weights in tenths)
C8_Number(text) ==
    CASE text = "4" -> 4
      [] text = "65" -> 65
      [] text = "0.5" -> 5

\* the keyword arguments the PERSONFROMVID_<GROUP>__<FIELD> variables stand for
C8_EnvData(env) ==
    LET models == IF Has(env, EnvBatchSize)
                  THEN [batch_size |-> C8_Number(env[EnvBatchSize])]
                  ELSE <<>>
        selection == IF Has(env, EnvQualityWeight)
                     THEN [quality_weight |-> C8_Number(env[EnvQualityWeight])]
                     ELSE <<>>
    IN  [models |-> models, frame_selection |-> selection]

C8_FromEnvironment ==
    \/ outcome.op = "from_env"
    \/ /\ outcome.op = "load_config"
       /\ \/ outcome.arg = NoPath
          \/ files[outcome.arg].state = "absent"

\* C8: from_env, and load_config without an existing path, return the
\* defaults overlaid with the PERSONFROMVID_<GROUP>__<FIELD> variables of the
\* environment, validated as a file's values are.
C8_EnvironmentOverlay ==
    C8_FromEnvironment =>
       LET r == Config(C8_EnvData(environ))
       IN  IF r.ok THEN outcome.error = "ok" /\ cfg = r.value
           ELSE outcome.error = "ValidationError"

\* every field holds a value of its declared type, within its bounds, and
\* the two weights sum to at most 1.0
C9_Valid(c) ==
    /\ c.models.device.t = "DeviceType"
    /\ c.models.device.v \in DeviceTypeValues
    /\ C5_InRange("batch_size", c.models.batch_size)
    /\ C5_InRange("face_size_weight", c.frame_selection.face_size_weight)
    /\ C5_InRange("quality_weight", c.frame_selection.quality_weight)
    /\ c.frame_selection.face_size_weight + c.frame_selection.quality_weight
          <= WeightSumMax
    /\ c.storage.cache_directory.t = "Path"
    /\ c.storage.temp_directory.t \in {"Path", "None"}
    /\ c.logging.level.t = "LogLevel"
    /\ c.logging.level.v \in LogLevelValues

\* enum and path fields are plain strings (or null) in the file
C9_PlainStrings(data) ==
    /\ data.models.device.t = "str"
    /\ data.logging.level.t = "str"
    /\ data.storage.cache_directory.t = "str"
    /\ data.storage.temp_directory.t \in {"str", "None"}

\* C9: a valid Config written with to_file to a .yaml, .yml or .json path is
\* written with its enum and path fields as plain strings, and from_file on
\* that path yields a Config equal to it.
C9_FileRoundTrip ==
    /\ (/\ outcome.op = "to_file"
        /\ SuffixFormat(outcome.arg) # "unsupported"
        /\ C9_Valid(cfg))
          => /\ outcome.error = "ok"
             /\ files[outcome.arg].state = "written"
             /\ files[outcome.arg].origin = cfg
             /\ C9_PlainStrings(files[outcome.arg].data)
    /\ (/\ outcome.op = "from_file"
        /\ files[outcome.arg].state = "written"
        /\ files[outcome.arg].origin # NoConfig
        /\ C9_Valid(files[outcome.arg].origin))
          => /\ outcome.error = "ok"
             /\ cfg = files[outcome.arg].origin

\* a Config with a non-default log level and both directories set was
\* written to a YAML file and read back
C9_Witness ==
    /\ outcome.op = "from_file"
    /\ outcome.error = "ok"
    /\ SuffixFormat(outcome.arg) = "yaml"
    /\ files[outcome.arg].origin = cfg
    /\ files[outcome.arg].data.storage.temp_directory = StrValue("/t")
    /\ files[outcome.arg].data.logging.level = StrValue("DEBUG")
    /\ cfg.storage.temp_directory = PathValue("/t")
    /\ cfg.logging.level = EnumValue("LogLevel", "DEBUG")


-----------------------------------------------------------------------------
(* Filename validation claims.                                             *)

C11_Invalid(filename) ==
    \/ Len(filename) = 0
    \/ \E i \in 1..Len(filename) : filename[i] \in InvalidChars
    \/ Len(filename) > 255
    \/ \E i \in 1..Len(video_base_name) :
          i > Len(filename) \/ filename[i] # video_base_name[i]

C11_Value ==
    validated # NoValidation =>
       /\ validated.result \in BOOLEAN
       /\ validated.result = ~C11_Invalid(validated.filename)

RECURSIVE C11_Replay(_)
\* the engine after the first i issuing calls of the log, had nothing but
\* those calls been made on it
C11_Replay(i) ==
    IF i = 0
    THEN [name |-> <<>>, sequence |-> 0, used |-> {}, counters |-> <<>>]
    ELSE LET before == C11_Replay(i - 1)
         IN  ensure_unique_filename(log[i].candidate, before.used,
                                    before.counters)

C11_LaterNamesUnaffected ==
    \A i \in 1..Len(log) : log[i].result = C11_Replay(i).name

C11_Frame ==
    validated' # validated =>
       /\ used_filenames' = used_filenames
       /\ sequence_counters' = sequence_counters
       /\ video_base_name' = video_base_name
       /\ log' = log

\* C11: validate_filename returns false exactly when the name is empty, holds
\* one of < > : " / \ | ? *, is longer than 255 characters or does not start
\* with the video base name, and true otherwise; it always returns a boolean
\* and changes neither the issued filenames nor the sequence counters, so the
\* issuing calls return what they would have returned without it.
C11_ValidateFilename ==
    []C11_Value /\ []C11_LaterNamesUnaffected /\ [][C11_Frame]_vars

\* a name was validated as good after one issuing call, and a later issuing
\* call for that very name returned it unchanged
C11_Witness ==
    /\ validated # NoValidation
    /\ validated.result
    /\ validated.calls_before = 1
    /\ Len(log) = 2
    /\ log[2].candidate = validated.filename
    /\ log[2].result = validated.filename


-----------------------------------------------------------------------------
(* Termination and concurrency claims.                                     *)

C12_InCall(w) == pc[w] # "idle"

\* membership tests made so far by a call in progress, and by every call
\* that returned, against the filenames issued when the call began
C12_AttemptsBounded ==
    /\ \A w \in Workers :
          C12_InCall(w) =>
             /\ local[w].attempts <= Cardinality(used_filenames) + 1
             /\ serialized => local[w].attempts <= local[w].issued + 1
    /\ \A i \in 1..Len(log) :
          /\ log[i].attempts >= 1
          /\ serialized => log[i].attempts <= log[i].issued + 1

C12_Returns == \A w \in Workers : C12_InCall(w) ~> ~C12_InCall(w)

\* C12: every issuing call returns a name: the call tests at most (filenames
\* already issued + 1) names, the candidate included, before one is unused,
\* and a call that was begun comes to its return.
C12_IssuingCallTerminates == []C12_AttemptsBounded /\ C12_Returns

\* a serialized call that needed every one of its (issued + 1) tests: the
\* candidate and <stem>_001 were both issued already
C12_Witness ==
    /\ serialized
    /\ \E i \in 1..Len(log) :
          /\ log[i].issued = 2
          /\ log[i].attempts = 3
          /\ log[i].sequence = 2

\* C13: with every issuing call run under the engine's lock no two calls of
\* the two workers return the same filename: two equal returned filenames
\* occur only when the calls are not serialized, the membership test of one
\* call falling between the test and the recording of the other.
C13_DuplicatesOnlyUnserialized ==
    \A i, j \in 1..Len(log) :
       (i # j /\ log[i].result = log[j].result) => ~serialized

\* both workers were returned the same filename
C13_Witness ==
    \E i, j \in 1..Len(log) :
       /\ log[i].worker # log[j].worker
       /\ log[i].result = log[j].result

====
